---- MODULE Spec2Model ----
(***************************************************************************)
(* Model of relay-rust/src/relay/icmp_connection.rs (IcmpConnection) with  *)
(* its collaborators: the Selector, the Router, the Client and the         *)
(* DatagramBuffer.  The collaborators' sources are not part of src/; they  *)
(* are modelled from the design text (spec.md) and are marked as such      *)
(* where they are defined.                                                 *)
(*                                                                         *)
(* A connection is identified by its flow identity (ConnectionId).  The    *)
(* methods of IcmpConnection are operators over a "world" record W that    *)
(* holds every field the method can touch; an action evaluates the whole   *)
(* handler on the current world and commits the result.                    *)
(***************************************************************************)
EXTENDS Integers, Sequences, FiniteSets, TLC

\* ------------------------------------------------------------------ bounds
\* Flow identities that the tunnel can present.
Conns == {1, 2}
\* Number of tunnel packets dispatched in one run; the n-th packet of a flow
\* carries the tag n.
MaxSends == 5
\* A connection is followed for at most MaxSeconds seconds of idleness.
MaxSeconds == 3
\* The clock advances in half seconds: the sub-second positions of a tick.
SubSecond == {0, 1}
TicksPerSecond == Cardinality(SubSecond)
MaxTime == MaxSeconds * TicksPerSecond
\* Tunnel packets dispatched in one run when both flows are active.
FlowSends == 3
\* Longest ICMP payload, in bytes, given to the header codec.
MaxPayload == 1
\* Bytes a header buffer may hold beyond the 4 bytes of the ICMP header.
HeaderExtra == 1
\* Byte values the codec is fed with: the extremes of u8 and a small one.
ByteVals == {0, 1, 255}
\* IPv4 header lengths (no options, one option word).
Ipv4HeaderLengths == {20, 24}

\* ------------------------------------------------------ program constants
\* const IDLE_TIMEOUT_SECONDS: u64 = 2;
IDLE_TIMEOUT_SECONDS == 2
\* client_to_network: DatagramBuffer::new(4)
BufferCapacity == 4
\* pub const ICMP_HEADER_LENGTH: u8 = 4;
ICMP_HEADER_LENGTH == 4

\* ----------------------------------------------------------------- values
\* mio::Ready as a set of readiness bits.
ReadyReadable == {"r"}
ReadyWritable == {"w"}
ReadyAll == SUBSET {"r", "w"}
\* The interest set of a token the Selector does not hold.
NotRegistered == {}

\* io::Result outcomes the environment can produce.
IoOutcome == {"ok", "wouldblock", "error"}
OkOrError == {"ok", "error"}
\* One environment choice per fallible call a handler can make.
ReadyEnv == [wr : IoOutcome, rd : IoOutcome, cl : OkOrError,
             rereg : OkOrError, dereg : OkOrError]
DispatchEnv == [sock : OkOrError, reg : OkOrError, rereg : OkOrError]
CloseEnv == [dereg : OkOrError]

VARIABLES
    exists,             \* exists[c]: an IcmpConnection object for flow c was created
    closed,             \* IcmpConnection.closed
    idle_elapsed,       \* IcmpConnection.idle_since.elapsed(), in ticks: the time
                        \* between the Instant stored in idle_since and now
    interests,          \* IcmpConnection.interests
    client_to_network,  \* IcmpConnection.client_to_network: queued datagram tags
    registered,         \* Selector: interest set registered for c's token ({} = none)
    router,             \* Router: flow identities held in the flow map
    written,            \* real socket of c: datagram tags sent, in order
    sent_count,         \* sent_count[c]: tunnel packets of flow c dispatched so far
    panicked,           \* the thread has panicked (the event loop is gone)
    last,               \* the last operation: its name, its connection, whether
                        \* that connection was open when it was called, the
                        \* readiness of its event, and the calls it issued
    icmp                \* an ICMP header under edit (icmp_header.rs): the raw
                        \* bytes, the detached IcmpHeaderData, the payload, the
                        \* IPv4 header data, and the last codec operation

vars == <<exists, closed, idle_elapsed, interests, client_to_network, registered,
          router, written, sent_count, panicked, last, icmp>>

World ==
    [exists |-> exists, closed |-> closed, idle_elapsed |-> idle_elapsed,
     interests |-> interests,
     client_to_network |-> client_to_network, registered |-> registered,
     router |-> router, written |-> written,
     panicked |-> panicked, effects |-> <<>>]

Effect(W, op, res) == [W EXCEPT !.effects = Append(@, <<op, res>>)]

Ok(W) == [W |-> W, res |-> "ok"]
Err(W, kind) == [W |-> W, res |-> kind]

\* ------------------------------------------------- DatagramBuffer (design)
\* Bounded FIFO queue of datagrams; the source file datagram_buffer.rs is not
\* part of src/.  A datagram is represented by the tag of its tunnel packet.
DatagramBuffer_new(capacity) == <<>>

DatagramBuffer_is_empty(buf) == buf = <<>>

DatagramBuffer_has_enough_space_for(buf) == Len(buf) < BufferCapacity

\* read_from(payload): append, or fail with "buffer is full" and keep the queue.
DatagramBuffer_read_from(buf, payload) ==
    IF DatagramBuffer_has_enough_space_for(buf)
    THEN [buf |-> Append(buf, payload), res |-> "ok"]
    ELSE [buf |-> buf, res |-> "error"]

\* write_to(socket): send the oldest datagram; it leaves the queue only when the
\* socket took it (a datagram "destined for a not-yet-writable socket" is held).
\* sent is the sequence of datagrams handed to the socket by this call.
DatagramBuffer_write_to(buf, sockres) ==
    IF DatagramBuffer_is_empty(buf)
    THEN [buf |-> buf, res |-> "ok", sent |-> <<>>, tried |-> FALSE]
    ELSE IF sockres = "ok"
    THEN [buf |-> Tail(buf), res |-> "ok", sent |-> <<Head(buf)>>, tried |-> TRUE]
    ELSE [buf |-> buf, res |-> sockres, sent |-> <<>>, tried |-> TRUE]

\* ------------------------------------------------------- Selector (design)
\* register(socket, handler, interests) -> token, or an I/O error that leaves
\* nothing registered.
Selector_register(W, c, ready, res) ==
    Effect(IF res = "ok" THEN [W EXCEPT !.registered[c] = ready] ELSE W,
           "register", res)

\* reregister(socket, token, interests): changes the interest set of a registered
\* token; an I/O error leaves the registration as it was.
Selector_reregister(W, c, ready, res) ==
    Effect(IF res = "ok" /\ W.registered[c] # NotRegistered
           THEN [W EXCEPT !.registered[c] = ready] ELSE W,
           "reregister", res)

\* deregister(socket, token): removes the token from polling; an I/O error leaves
\* the registration as it was.
Selector_deregister(W, c, res) ==
    Effect(IF res = "ok" THEN [W EXCEPT !.registered[c] = NotRegistered] ELSE W,
           "deregister", res)

\* --------------------------------------------------------- Router (design)
\* remove(connection): erases the connection from the flow map.
Router_remove(W, c) ==
    Effect([W EXCEPT !.router = @ \ {c}], "router.remove", "ok")

\* --------------------------------------------------------- Client (design)
\* send_to_client(selector, packet): hands the packet to the tunnel, or fails.
Client_send_to_client(W, c, res) == Effect(W, "send_to_client", res)

\* ------------------------------------------------- Packetizer (design)
\* packetize(socket): one recv on the real socket, wrapped as an IPv4 packet.
Packetizer_packetize(W, c, res) == Effect(W, "socket.recv", res)

\* ------------------------------------------------ IcmpConnection (source)
\* Mutation: the time of the last activity is not recorded.
touch_skipped(W, c) == W

\* fn touch(&mut self): idle_since = Instant::now(), so nothing has elapsed.
touch(W, c) == Effect([W EXCEPT !.idle_elapsed[c] = 0], "touch", "ok")

\* Mutation: the connection is not erased from the flow map.
remove_from_router_forgotten(W, c) == W

\* fn remove_from_router(&self): client.router().remove(self)
remove_from_router(W, c) == Router_remove(W, c)

\* fn close(&mut self, selector): sets the flag and deregisters; a failing
\* deregister is logged and nothing else.
close(W, c, env) ==
    Selector_deregister(Effect([W EXCEPT !.closed[c] = TRUE], "close", "ok"),
                        c, env.dereg)

\* fn update_interests(&mut self, selector): reregisters when the interest set
\* changes; .expect("Cannot register on poll") panics when reregister fails.
update_interests(W, c, env) ==
    LET ready == IF DatagramBuffer_is_empty(W.client_to_network[c])
                 THEN ReadyReadable
                 ELSE ReadyReadable \cup ReadyWritable
    IN  IF W.interests[c] # ready
        THEN LET W1 == Selector_reregister([W EXCEPT !.interests[c] = ready],
                                           c, ready, env.rereg)
             IN  IF env.rereg = "ok" THEN W1
                 ELSE Effect([W1 EXCEPT !.panicked = TRUE], "panic", "expect")
        ELSE W

\* Mutation: the datagram handed to the socket stays queued.
write_keeps_datagram(W, c, env) ==
    LET r  == DatagramBuffer_write_to(W.client_to_network[c], env.wr)
        W1 == [W EXCEPT !.written[c] = @ \o r.sent]
        W2 == IF r.tried THEN Effect(W1, "socket.send", r.res) ELSE W1
    IN  [W |-> W2, res |-> r.res]

\* fn write(&mut self): self.client_to_network.write_to(&mut self.socket)?
write(W, c, env) ==
    LET r  == DatagramBuffer_write_to(W.client_to_network[c], env.wr)
        W1 == [W EXCEPT !.client_to_network[c] = r.buf,
                        !.written[c] = @ \o r.sent]
        W2 == IF r.tried THEN Effect(W1, "socket.send", r.res) ELSE W1
    IN  [W |-> W2, res |-> r.res]

\* Mutation: a would-block on write is handled like any other error.
process_send_wouldblock_closes(W, c, env) ==
    LET r == write(W, c, env)
    IN  IF r.res = "ok" THEN Ok(r.W) ELSE Ok(close(r.W, c, env))

\* fn process_send(&mut self, selector): a would-block is handed back to the
\* caller, any other error closes the connection.
process_send(W, c, env) ==
    LET r == write(W, c, env)
    IN  CASE r.res = "ok" -> Ok(r.W)
          [] r.res = "wouldblock" -> Err(r.W, "wouldblock")
          [] OTHER -> Ok(close(r.W, c, env))

\* fn read(&mut self, selector): packetize from the socket (errors propagate),
\* then send_to_client; a delivery failure is logged and the packet dropped.
read(W, c, env) ==
    LET W1 == Packetizer_packetize(W, c, env.rd)
    IN  IF env.rd # "ok" THEN Err(W1, env.rd)
        ELSE Ok(Client_send_to_client(W1, c, env.cl))

\* fn process_receive(&mut self, selector)
process_receive(W, c, env) ==
    LET r == read(W, c, env)
    IN  CASE r.res = "ok" -> Ok(r.W)
          [] r.res = "wouldblock" -> Err(r.W, "wouldblock")
          [] OTHER -> Ok(close(r.W, c, env))

\* Mutation: the socket is read before the buffer is flushed.
process_open_read_first(W, c, ready, env) ==
    LET W1 == touch(W, c)
        io == IF "r" \in ready \/ "w" \in ready
              THEN LET s == IF "r" \in ready
                            THEN process_receive(W1, c, env) ELSE Ok(W1)
                       r == IF s.res = "ok" /\ ~s.W.closed[c] /\ "w" \in ready
                            THEN process_send(s.W, c, env) ELSE s
                   IN  IF r.res = "ok" /\ ~r.W.closed[c]
                       THEN Ok(update_interests(r.W, c, env))
                       ELSE r
              ELSE Ok(close(W1, c, env))
    IN  IF io.res = "ok" /\ io.W.closed[c]
        THEN Ok(remove_from_router(io.W, c))
        ELSE io

\* fn process, the body of `if !self.closed { ... }`
process_open(W, c, ready, env) ==
    LET W1 == touch(W, c)
        io == IF "r" \in ready \/ "w" \in ready
              THEN LET s == IF "w" \in ready
                            THEN process_send(W1, c, env) ELSE Ok(W1)
                       r == IF s.res = "ok" /\ ~s.W.closed[c] /\ "r" \in ready
                            THEN process_receive(s.W, c, env) ELSE s
                   IN  IF r.res = "ok" /\ ~r.W.closed[c]
                       THEN Ok(update_interests(r.W, c, env))
                       ELSE r
              ELSE Ok(close(W1, c, env))
    IN  IF io.res = "ok" /\ io.W.closed[c]
        THEN Ok(remove_from_router(io.W, c))
        ELSE io

\* Mutation: the closed flag is not tested.
process_ignoring_closed(W, c, ready, env) == process_open(W, c, ready, env)

\* fn process(&mut self, selector, event) -> io::Result<()>
process(W, c, ready, env) ==
    IF ~W.closed[c] THEN process_open(W, c, ready, env) ELSE Ok(W)

\* fn on_ready(&mut self, selector, event): a would-block from process is a
\* spurious event; any other error panics.
on_ready(W, c, ready, env) ==
    LET r == process(W, c, ready, env)
    IN  CASE r.res = "ok" -> r.W
          [] r.res = "wouldblock" -> r.W
          [] OTHER -> Effect([r.W EXCEPT !.panicked = TRUE], "panic", "unhandled")

\* Mutation: a payload the buffer refuses pushes the oldest datagram out.
send_to_network_drops_oldest(W, c, payload, env) ==
    LET r == DatagramBuffer_read_from(W.client_to_network[c], payload)
    IN  IF r.res = "ok"
        THEN update_interests(
                 Effect([W EXCEPT !.client_to_network[c] = r.buf], "read_from", "ok"),
                 c, env)
        ELSE Effect([W EXCEPT !.client_to_network[c] = Append(Tail(@), payload)],
                    "read_from", "error")

\* fn send_to_network(&mut self, selector, _, ipv4_packet): queue the payload
\* and update the interests; a payload the buffer refuses is logged and dropped.
send_to_network(W, c, payload, env) ==
    LET r == DatagramBuffer_read_from(W.client_to_network[c], payload)
    IN  IF r.res = "ok"
        THEN update_interests(
                 Effect([W EXCEPT !.client_to_network[c] = r.buf], "read_from", "ok"),
                 c, env)
        ELSE Effect(W, "read_from", "error")

\* fn is_expired(&self) -> bool: elapsed().as_secs() is the whole seconds elapsed.
as_secs(ticks) == ticks \div TicksPerSecond

\* Mutation: the comparison with the threshold is not strict.
is_expired_not_strict(W, c) == as_secs(W.idle_elapsed[c]) >= IDLE_TIMEOUT_SECONDS

is_expired(W, c) == as_secs(W.idle_elapsed[c]) > IDLE_TIMEOUT_SECONDS

\* fn is_closed(&self) -> bool
is_closed(W, c) == W.closed[c]

create_half_built(W, c, env) ==
    IF env.sock # "ok"
    THEN Err(Effect(W, "create_socket", "error"), "error")
    ELSE LET W1 == [W EXCEPT !.exists[c] = TRUE,
                             !.closed[c] = FALSE,
                             !.interests[c] = ReadyReadable,
                             !.client_to_network[c] = DatagramBuffer_new(BufferCapacity),
                             !.idle_elapsed[c] = 0,
                             !.written[c] = <<>>]
             W2 == Selector_register(Effect(W1, "create_socket", "ok"),
                                     c, ReadyReadable, env.reg)
         IN  IF env.reg = "ok" THEN Ok(W2)
             ELSE Err([W2 EXCEPT !.router = @ \cup {c}], "error")

\* fn create(selector, id, client, ipv4_header, transport_header): open, bind and
\* connect the raw socket (create_socket), build the connection, register it for
\* Ready::readable(); any failure returns the error and the connection is dropped.
create(W, c, env) ==
    IF env.sock # "ok"
    THEN Err(Effect(W, "create_socket", "error"), "error")
    ELSE LET W1 == [W EXCEPT !.exists[c] = TRUE,
                             !.closed[c] = FALSE,
                             !.interests[c] = ReadyReadable,
                             !.client_to_network[c] = DatagramBuffer_new(BufferCapacity),
                             !.idle_elapsed[c] = 0,
                             !.written[c] = <<>>]
             W2 == Selector_register(Effect(W1, "create_socket", "ok"),
                                     c, ReadyReadable, env.reg)
         IN  IF env.reg = "ok" THEN Ok(W2)
             ELSE Err([W EXCEPT !.effects = W2.effects], "error")

\* ------------------------------------------------- Router, whole (design)
\* dispatch(selector, packet): forward to the flow's connection, creating it when
\* the flow map has none; a packet whose connection cannot be created is dropped.
Router_dispatch(W, c, payload, env) ==
    IF c \in W.router
    THEN send_to_network(W, c, payload, env)
    ELSE LET r == create(W, c, env)
         IN  IF r.res = "ok"
             THEN send_to_network(
                      Effect([r.W EXCEPT !.router = @ \cup {c}], "router.insert", "ok"),
                      c, payload, env)
             ELSE r.W

\* sweep(): close and remove every connection of the flow map that is expired.
RECURSIVE Router_sweep(_, _, _)
Router_sweep(W, todo, env) ==
    IF todo = {} THEN W
    ELSE LET c  == CHOOSE x \in todo : \A y \in todo : x <= y
             W1 == IF c \in W.router /\ is_expired(W, c)
                   THEN Router_remove(close(W, c, env), c)
                   ELSE W
         IN  Router_sweep(W1, todo \ {c}, env)

\* ---------------------------------------------------- icmp_header.rs (source)
\* u8 and u16 arithmetic.
U8 == 256
U16 == 65536

\* BigEndian::read_u16(&buf[i..i+2]) for the 0-based offset i.
read_u16(buf, i) == buf[i + 1] * U8 + buf[i + 2]

\* BigEndian::write_u16(&mut buf[i..i+2], v) for the 0-based offset i.
write_u16(buf, i, v) ==
    [buf EXCEPT ![i + 1] = (v % U16) \div U8, ![i + 2] = v % U8]

parse_swapped(raw) ==
    [icmp_type |-> raw[2], icmp_code |-> raw[1], checksum |-> read_u16(raw, 2)]

\* IcmpHeaderData::parse(raw)
parse(raw) ==
    [icmp_type |-> raw[1], icmp_code |-> raw[2], checksum |-> read_u16(raw, 2)]

\* An IcmpHeaderMut (raw, data) bound to its payload and IPv4 header data.
IcmpHeaderOf(raw, payload, ipv4_header_length) ==
    [raw |-> raw, data |-> parse(raw), payload |-> payload,
     ipv4 |-> [header_length |-> ipv4_header_length,
               total_length |-> ipv4_header_length + Len(raw) + Len(payload)],
     op |-> "parse", arg |-> 0]

set_icmp_type_detached(h, icmp_type) ==
    [h EXCEPT !.data.icmp_type = icmp_type]

\* IcmpHeaderMut::set_icmp_type
set_icmp_type(h, icmp_type) ==
    [h EXCEPT !.data.icmp_type = icmp_type, !.raw[1] = icmp_type]

\* IcmpHeaderMut::set_icmp_code
set_icmp_code(h, icmp_code) ==
    [h EXCEPT !.data.icmp_code = icmp_code, !.raw[2] = icmp_code]

\* IcmpHeaderMut::set_checksum: only the raw bytes are written.
set_checksum(h, checksum) == [h EXCEPT !.raw = write_u16(@, 2, checksum)]

\* Sum of the 16-bit big-endian words 0 .. n-1 of buf, in u32. The transport
\* length is a u16, so at most 32767 words are added and the u32 cannot wrap.
RECURSIVE sum_words(_, _)
sum_words(buf, n) ==
    IF n = 0 THEN 0
    ELSE sum_words(buf, n - 1) + read_u16(buf, 2 * (n - 1))

\* while (sum & !0xffff) != 0 { sum = (sum & 0xffff) + (sum >> 16); }
RECURSIVE fold(_)
fold(sum) == IF sum \div U16 # 0 THEN fold((sum % U16) + (sum \div U16)) ELSE sum

\* !sum as u16
not_u16(sum) == (U16 - 1) - (sum % U16)

\* IcmpHeaderMut::update_checksum(ipv4_header_data, payload)
update_checksum(h) ==
    LET h0 == set_checksum(h, 0)
        transport_length == h.ipv4.total_length - h.ipv4.header_length
        end == transport_length \div 2
        data == h0.raw \o h.payload
        sum == fold(sum_words(data, end))
    IN  set_checksum(h0, not_u16(sum))

\* ---------------------------------------------------------------- actions
Commit(W, op, c, ready) ==
    LET open == c \in Conns /\ exists[c] /\ ~closed[c] IN
    /\ exists' = W.exists
    /\ closed' = W.closed
    /\ idle_elapsed' = W.idle_elapsed
    /\ interests' = W.interests
    /\ client_to_network' = W.client_to_network
    /\ registered' = W.registered
    /\ router' = W.router
    /\ written' = W.written
    /\ panicked' = W.panicked
    /\ last' = [op |-> op, conn |-> c, open |-> open, ready |-> ready,
                effects |-> W.effects]
    /\ icmp' = icmp

\* No flow exists yet.
InitConnections ==
    /\ exists = [c \in Conns |-> FALSE]
    /\ closed = [c \in Conns |-> FALSE]
    /\ idle_elapsed = [c \in Conns |-> 0]
    /\ interests = [c \in Conns |-> ReadyReadable]
    /\ client_to_network = [c \in Conns |-> <<>>]
    /\ registered = [c \in Conns |-> NotRegistered]
    /\ router = {}
    /\ written = [c \in Conns |-> <<>>]
    /\ sent_count = [c \in Conns |-> 0]
    /\ panicked = FALSE
    /\ last = [op |-> "init", conn |-> 0, open |-> FALSE, ready |-> {},
               effects |-> <<>>]

Init ==
    /\ InitConnections
    /\ icmp = IcmpHeaderOf(<<0, 0, 0, 0>>, <<>>, 20)

\* Total number of tunnel packets dispatched so far.
RECURSIVE Sum(_, _)
Sum(f, S) == IF S = {} THEN 0
             ELSE LET x == CHOOSE y \in S : TRUE IN f[x] + Sum(f, S \ {x})

\* The outcome of a call the handler does not make is not chosen.
DispatchChoice(c, env) ==
    /\ c \in router => env.sock = "ok"
    /\ (c \in router \/ env.sock # "ok") => env.reg = "ok"
    /\ (c \notin router /\ (env.sock # "ok" \/ env.reg # "ok")) => env.rereg = "ok"

ReadyChoice(c, ready, env) ==
    LET open  == ~closed[c]
        wrUse == open /\ "w" \in ready /\ client_to_network[c] # <<>>
        rdUse == open /\ "r" \in ready /\ (wrUse => env.wr = "ok")
    IN  /\ ~wrUse => env.wr = "ok"
        /\ ~rdUse => env.rd = "ok"
        /\ ~(rdUse /\ env.rd = "ok") => env.cl = "ok"
        /\ ~(open /\ (ready = {} \/ (wrUse /\ env.wr = "error")
                                 \/ (rdUse /\ env.rd = "error")))
               => env.dereg = "ok"
        /\ ~(open /\ ready # {} /\ env.wr = "ok" /\ env.rd = "ok")
               => env.rereg = "ok"

\* The tunnel delivers a packet of flow c: Router::dispatch.
Dispatch(c) ==
    /\ ~panicked
    /\ Sum(sent_count, Conns) < MaxSends
    /\ \E env \in DispatchEnv :
         /\ DispatchChoice(c, env)
         /\ Commit(Router_dispatch(World, c, sent_count[c] + 1, env),
                   "dispatch", c, {})
    /\ sent_count' = [sent_count EXCEPT ![c] = @ + 1]

\* The Selector runs the handler of c's token with the readiness it observed:
\* bits of the registered interest set (none of them: error or hang-up), or, for
\* a connection already closed, a stale event with any bits.
OnReady(c) ==
    /\ ~panicked
    /\ exists[c]
    /\ \E ready \in ReadyAll, env \in ReadyEnv :
         /\ closed[c] \/ ready \subseteq registered[c]
         /\ ReadyChoice(c, ready, env)
         /\ Commit(on_ready(World, c, ready, env), "on_ready", c, ready)
    /\ UNCHANGED sent_count

\* An owner of the connection calls Connection::close.
Close(c) ==
    /\ ~panicked
    /\ exists[c]
    /\ \E env \in CloseEnv : Commit(close(World, c, env), "close", c, {})
    /\ UNCHANGED sent_count

\* The Client's loop runs the Router's periodic sweep.
Sweep ==
    /\ ~panicked
    /\ \E env \in CloseEnv : Commit(Router_sweep(World, Conns, env), "sweep", 0, {})
    /\ UNCHANGED sent_count

\* Half a second passes for every connection.
Tick ==
    /\ ~panicked
    /\ \E c \in Conns : exists[c]
    /\ \A c \in Conns : exists[c] => idle_elapsed[c] < MaxTime
    /\ idle_elapsed' = [c \in Conns |->
                          IF exists[c] THEN idle_elapsed[c] + 1 ELSE idle_elapsed[c]]
    /\ last' = [op |-> "tick", conn |-> 0, open |-> FALSE, ready |-> {},
                effects |-> <<>>]
    /\ UNCHANGED <<exists, closed, interests, client_to_network,
                   registered, router, written, sent_count, panicked, icmp>>

\* One flow, followed through its whole life.
MainFlow == 1

Next ==
    \/ Dispatch(MainFlow)
    \/ OnReady(MainFlow)
    \/ Close(MainFlow)
    \/ Sweep
    \/ Tick

Spec == Init /\ [][Next]_vars

\* Every call of the handler succeeds.
NoFailure == [wr |-> "ok", rd |-> "ok", cl |-> "ok", rereg |-> "ok", dereg |-> "ok"]

\* The open connection c is registered for write and has a datagram queued.
CanFlush(c) ==
    /\ ~panicked
    /\ exists[c] /\ ~closed[c]
    /\ ReadyWritable \subseteq registered[c]
    /\ ~DatagramBuffer_is_empty(client_to_network[c])

\* The statements process runs on a write readiness event when nothing fails:
\* touch, write, update_interests.
flushed(W, c) == update_interests(write(touch(W, c), c, NoFailure).W, c, NoFailure)

\* The handler of the open connection c runs on a write readiness event and the
\* socket takes the datagram: one of the steps of OnReady(c).
Flush(c) ==
    /\ CanFlush(c)
    /\ Commit(flushed(World, c), "on_ready", c, ReadyWritable)
    /\ UNCHANGED sent_count

\* The token is registered level-triggered: as long as the connection is
\* registered for write the Selector keeps running its handler, and the socket
\* does not refuse datagrams forever.
SpecLive == Init /\ [][Next]_vars /\ WF_vars(Flush(MainFlow))

\* Two flows side by side, with a short supply of tunnel packets and the clock
\* standing still.
DispatchFlows(c) == Sum(sent_count, Conns) < FlowSends /\ Dispatch(c)

NextFlows ==
    \/ \E c \in Conns : DispatchFlows(c)
    \/ \E c \in Conns : OnReady(c)
    \/ \E c \in Conns : Close(c)

SpecFlows == Init /\ [][NextFlows]_vars

\* ------------------------------------------------------- the header codec
\* Byte sequences of the lengths lo .. hi.
Bytes(lo, hi) == UNION {[1..n -> ByteVals] : n \in lo..hi}

\* A header buffer of 4 bytes or more is parsed and bound to a mutable view.
InitHeader ==
    /\ InitConnections
    /\ \E raw \in Bytes(ICMP_HEADER_LENGTH, ICMP_HEADER_LENGTH + HeaderExtra),
          payload \in Bytes(0, MaxPayload),
          hl \in Ipv4HeaderLengths :
         icmp = IcmpHeaderOf(raw, payload, hl)

\* The codec does not touch the connections.
connections == <<exists, closed, idle_elapsed, interests, client_to_network,
                 registered, router, written, sent_count, panicked, last>>

Called(h, op, arg) == [h EXCEPT !.op = op, !.arg = arg]

SetIcmpType ==
    \E v \in ByteVals :
        /\ icmp' = Called(set_icmp_type(icmp, v), "set_icmp_type", v)
        /\ UNCHANGED connections

SetIcmpCode ==
    \E v \in ByteVals :
        /\ icmp' = Called(set_icmp_code(icmp, v), "set_icmp_code", v)
        /\ UNCHANGED connections

UpdateChecksum ==
    /\ icmp' = Called(update_checksum(icmp), "update_checksum", 0)
    /\ UNCHANGED connections

\* The buffer is parsed again and the parsed type and code are written back.
Rewrite ==
    LET d == parse(icmp.raw)
        h == [icmp EXCEPT !.data = d]
    IN  /\ icmp' = Called(set_icmp_code(set_icmp_type(h, d.icmp_type),
                                        d.icmp_code), "rewrite", 0)
        /\ UNCHANGED connections

NextHeader ==
    \/ SetIcmpType
    \/ SetIcmpCode
    \/ UpdateChecksum
    \/ Rewrite

SpecHeader == InitHeader /\ [][NextHeader]_vars

\* ------------------------------------------------------------- properties
\* What the last operation issued.
HasEffect(l, op) == \E i \in DOMAIN l.effects : l.effects[i][1] = op
HasResult(l, op, res) == \E i \in DOMAIN l.effects : l.effects[i] = <<op, res>>
Count(l, op) == Cardinality({i \in DOMAIN l.effects : l.effects[i][1] = op})

\* The fields of connection c and what the Selector and the Router hold for it.
ConnState(c) == <<closed[c], idle_elapsed[c], interests[c], client_to_network[c],
                  registered[c], c \in router, written[c]>>

\* C1: every path of on_ready that closes the connection (no readiness, write
\* error, read error) deregisters its token from the Selector and erases the
\* connection from the Router's flow map before on_ready returns; a connection
\* closed by on_ready is never still in the flow map.
C1_Step ==
    \A c \in Conns :
      /\ (last'.op = "on_ready" /\ last'.conn = c /\ last'.open /\ closed'[c]) =>
            /\ c \notin router'
            /\ HasEffect(last', "router.remove")
            /\ Count(last', "deregister") = 1
            /\ registered'[c] = NotRegistered
            /\ ~panicked'
      /\ (last'.op = "on_ready" /\ last'.conn = c /\ last'.open /\ ~closed'[c]) =>
            /\ ~(last'.ready = {})
            /\ ~HasResult(last', "socket.send", "error")
            /\ ~HasResult(last', "socket.recv", "error")
      /\ (closed[c] /\ c \notin router /\ closed'[c]) => c \notin router'
C1_OnReadyCloseDeregistersAndRemoves == [][C1_Step]_vars

\* What the code does: every closing path of on_ready issues one deregister
\* call and erases the connection from the flow map in the same call, and the
\* connection does not come back while it is closed; the token is gone exactly
\* when the deregister call succeeded.
C1_StepOfTheCode ==
    \A c \in Conns :
      /\ (last'.op = "on_ready" /\ last'.conn = c /\ last'.open /\ closed'[c]) =>
            /\ c \notin router'
            /\ HasEffect(last', "router.remove")
            /\ Count(last', "deregister") = 1
            /\ (registered'[c] = NotRegistered) <=>
                   HasResult(last', "deregister", "ok")
            /\ ~panicked'
      /\ (last'.op = "on_ready" /\ last'.conn = c /\ last'.open /\ ~closed'[c]) =>
            /\ ~(last'.ready = {})
            /\ ~HasResult(last', "socket.send", "error")
            /\ ~HasResult(last', "socket.recv", "error")
      /\ (closed[c] /\ c \notin router /\ closed'[c]) => c \notin router'
C1_OnReadyCloseRemovesFromRouter == [][C1_StepOfTheCode]_vars

\* on_ready closed the connection after a read error and erased it from the
\* flow map, but the deregister call failed and the token is still registered.
C1_ClosedWithTokenRegistered ==
    /\ last.op = "on_ready" /\ last.open /\ last.conn = MainFlow
    /\ HasResult(last, "socket.recv", "error")
    /\ HasResult(last, "deregister", "error")
    /\ closed[MainFlow] /\ MainFlow \notin router
    /\ registered[MainFlow] # NotRegistered

\* on_ready closed the connection after a read error, and the connection is out
\* of the flow map with its token deregistered.
C1_Witness ==
    /\ last.op = "on_ready" /\ last.open
    /\ HasResult(last, "socket.recv", "error")
    /\ closed[MainFlow] /\ MainFlow \notin router
    /\ registered[MainFlow] = NotRegistered

\* C2: an event delivered to a connection that is already closed changes
\* nothing, whatever its readiness: no field of the connection, no socket read
\* or write, no delivery to the Client, no Selector or Router call.
C2_Step ==
    \A c \in Conns :
      (last'.op = "on_ready" /\ last'.conn = c /\ closed[c]) =>
          /\ ConnState(c)' = ConnState(c)
          /\ last'.effects = <<>>
          /\ router' = router /\ registered' = registered
          /\ ~panicked'
C2_OnReadyClosedIsNoOp == [][C2_Step]_vars

\* C2 witness: a read-and-write event was handled by a closed connection.
C2_Witness ==
    /\ last.op = "on_ready" /\ ~last.open /\ last.conn = MainFlow
    /\ last.ready = {"r", "w"}
    /\ closed[MainFlow]

\* C3 (as claimed): close() on a connection that is already closed changes no
\* state of the connection and issues no further Selector deregistration.
C3_Step ==
    \A c \in Conns :
      (last'.op = "close" /\ last'.conn = c /\ closed[c]) =>
          /\ ConnState(c)' = ConnState(c)
          /\ ~HasEffect(last', "deregister")
C3_CloseIsIdempotent == [][C3_Step]_vars

\* C4 (as claimed): whatever the outcome of the socket read, the socket write,
\* the delivery to the Client, reregister and deregister, on_ready and
\* send_to_network return normally (no panic), and every other connection is
\* left as it was.
C4_Step ==
    (last'.op \in {"on_ready", "dispatch"}) =>
        /\ ~panicked'
        /\ \A d \in Conns \ {last'.conn} : ConnState(d)' = ConnState(d)
C4_NoFailureStopsTheLoop == [][C4_Step]_vars

\* C5: a would-block from the socket write or the socket read inside on_ready
\* is no error: the connection stays open, in the flow map and registered with
\* the interest it had (so the level-triggered event comes again), nothing is
\* deregistered or removed, and a datagram that could not be written stays at
\* the head of the outbound buffer.
C5_Step ==
    \A c \in Conns :
      LET wbSend == HasResult(last', "socket.send", "wouldblock")
          wbRecv == HasResult(last', "socket.recv", "wouldblock")
      IN  (last'.op = "on_ready" /\ last'.conn = c /\ last'.open
             /\ (wbSend \/ wbRecv)) =>
            /\ ~closed'[c]
            /\ c \in router'
            /\ registered'[c] = registered[c]
            /\ registered'[c] # NotRegistered
            /\ ~HasEffect(last', "close")
            /\ ~HasEffect(last', "deregister")
            /\ ~HasEffect(last', "router.remove")
            /\ ~panicked'
            /\ wbSend => /\ client_to_network'[c] = client_to_network[c]
                         /\ client_to_network'[c] # <<>>
                         /\ written'[c] = written[c]
                         /\ "w" \in registered'[c]
            /\ wbRecv => "r" \in registered'[c]
C5_WouldBlockIsNotAnError == [][C5_Step]_vars

\* C5 witness: a write would-block was handled and the datagram is still queued
\* in an open, registered connection of the flow map.
C5_Witness ==
    /\ last.op = "on_ready" /\ last.open /\ last.conn = MainFlow
    /\ HasResult(last, "socket.send", "wouldblock")
    /\ ~closed[MainFlow] /\ MainFlow \in router
    /\ client_to_network[MainFlow] # <<>>
    /\ "w" \in registered[MainFlow]

\* C6: send_to_network with a full outbound buffer drops the new datagram and
\* changes nothing else: the queue and its order, the closed flag, the flow map,
\* the interest set and the registration stay as they were, no Selector call is
\* made and nothing panics.
C6_Step ==
    \A c \in Conns :
      (last'.op = "dispatch" /\ last'.conn = c
         /\ HasResult(last', "read_from", "error")) =>
            /\ ConnState(c)' = ConnState(c)
            /\ router' = router
            /\ last'.effects = << <<"read_from", "error">> >>
            /\ ~panicked'
C6_FullBufferDropsNewest == [][C6_Step]_vars

\* C6 witness: a datagram was refused by the full buffer of an open connection.
C6_Witness ==
    /\ last.op = "dispatch" /\ last.open /\ last.conn = MainFlow
    /\ HasResult(last, "read_from", "error")
    /\ Len(client_to_network[MainFlow]) = BufferCapacity
    /\ ~closed[MainFlow] /\ MainFlow \in router

\* The interest set update_interests computes from the outbound buffer.
WantedInterests(c) ==
    IF client_to_network[c] = <<>> THEN ReadyReadable
    ELSE ReadyReadable \cup ReadyWritable

\* C7 (as claimed): when send_to_client fails only the packet is lost: the
\* connection is open, in the flow map and registered, and on_ready has
\* completed normally with the interest set recomputed.
C7_DeliveryFailureDropsOnlyThePacket ==
    \A c \in Conns :
      (last.op = "on_ready" /\ last.conn = c
         /\ HasResult(last, "send_to_client", "error")) =>
            /\ ~closed[c]
            /\ c \in router
            /\ registered[c] # NotRegistered
            /\ ~panicked
            /\ interests[c] = WantedInterests(c)
            /\ registered[c] = interests[c]

\* A sequence of tags in strictly increasing order.
Increasing(q) == \A i, j \in DOMAIN q : i < j => q[i] < q[j]

\* C8: per-flow FIFO.  The tags written to the socket followed by the tags still
\* queued are in the order send_to_network accepted them, none twice; an
\* on_ready writes at most one datagram, the head of the queue, and no other
\* operation writes to the socket of a live connection.
C8_Step ==
    \A c \in Conns :
      /\ Increasing(written'[c] \o client_to_network'[c])
      /\ (last'.op = "on_ready" /\ last'.conn = c) =>
            /\ Count(last', "socket.send") <= 1
            /\ \/ /\ written'[c] = written[c]
                  /\ client_to_network'[c] = client_to_network[c]
               \/ /\ client_to_network[c] # <<>>
                  /\ "w" \in last'.ready
                  /\ written'[c] = Append(written[c], Head(client_to_network[c]))
                  /\ client_to_network'[c] = Tail(client_to_network[c])
      /\ (last'.op # "on_ready" /\ ~HasEffect(last', "create_socket")) =>
            written'[c] = written[c]
C8_PerFlowFifo == [][C8_Step]_vars

\* C8 witness: two datagrams reached the socket in order while a third waits.
C8_Witness ==
    /\ Len(written[MainFlow]) >= 2
    /\ client_to_network[MainFlow] # <<>>
    /\ last.op = "on_ready"
    /\ HasResult(last, "socket.send", "ok")

\* The elapsed time, in ticks, from which a connection is expired.
ExpiryTicks == (IDLE_TIMEOUT_SECONDS + 1) * TicksPerSecond

\* C9 (as claimed): is_expired() is true exactly when the time elapsed since the
\* last activity, at sub-second granularity, is more than 2 seconds.
C9_ExpiredBeyondTwoSeconds ==
    \A c \in Conns :
      exists[c] =>
        (is_expired(World, c) <=>
           idle_elapsed[c] > IDLE_TIMEOUT_SECONDS * TicksPerSecond)

\* What is_expired() computes instead: the whole seconds elapsed since the last
\* activity are more than 2, that is from 3 seconds on; a sweep leaves no
\* connection idle for 3 seconds or more in the flow map.
ExpiredFromThreeSeconds ==
    /\ \A c \in Conns :
         exists[c] => (is_expired(World, c) <=> idle_elapsed[c] >= ExpiryTicks)
    /\ last.op = "sweep" => \A c \in router : idle_elapsed[c] < ExpiryTicks

\* A connection idle for exactly 3 seconds was closed and removed by the sweep.
SweptAtThreeSeconds ==
    /\ last.op = "sweep"
    /\ HasEffect(last, "close")
    /\ idle_elapsed[MainFlow] = ExpiryTicks
    /\ is_expired(World, MainFlow)
    /\ closed[MainFlow] /\ MainFlow \notin router

\* C10 (as claimed): after on_ready and after send_to_network on an open
\* connection the last activity is now (nothing has elapsed), whether or not
\* the payload was accepted.
C10_ActivityRefreshedByEventsAndPackets ==
    \A c \in Conns :
      (last.op \in {"on_ready", "dispatch"} /\ last.conn = c /\ last.open) =>
          idle_elapsed[c] = 0

\* C10 (amended): every on_ready on an open connection sets the last activity
\* to now; send_to_network leaves the recorded time as it was, whether or not
\* the payload was accepted.
C10_Step ==
    \A c \in Conns :
      /\ (last'.op = "on_ready" /\ last'.conn = c /\ last'.open) =>
            idle_elapsed'[c] = 0
      /\ (last'.op = "dispatch" /\ last'.conn = c /\ last'.open) =>
            idle_elapsed'[c] = idle_elapsed[c]
C10_ActivityRefreshedByEvents == [][C10_Step]_vars

\* C10 witness: an open connection that had been idle took a tunnel packet into
\* its buffer and its idle time runs on.
C10_Witness ==
    /\ last.op = "dispatch" /\ last.open /\ last.conn = MainFlow
    /\ HasResult(last, "read_from", "ok")
    /\ idle_elapsed[MainFlow] > 0

\* ---------------------------------------------------------------------- C11
\* The ones' complement sum of the bytes 1 .. n of buf taken as big-endian
\* 16-bit words, an odd last byte being the high byte of a word padded with 0.
RECURSIVE weighted_sum(_, _)
weighted_sum(buf, n) ==
    IF n = 0 THEN 0
    ELSE weighted_sum(buf, n - 1) + buf[n] * (IF n % 2 = 1 THEN U8 ELSE 1)

InternetChecksum(buf, n) ==
    LET total == weighted_sum(buf, n)
        folded == IF total = 0 THEN 0 ELSE ((total - 1) % (U16 - 1)) + 1
    IN  (U16 - 1) - folded

TransportLength(h) == h.ipv4.total_length - h.ipv4.header_length

\* The checksum the reference computation gives for the header under edit.
ReferenceChecksum(h) ==
    InternetChecksum(write_u16(h.raw, 2, 0) \o h.payload, TransportLength(h))

\* C11: after update_checksum, bytes 2..4 hold the Internet checksum of the
\* header and payload over every byte of the declared transport length, odd
\* lengths included.
C11_ChecksumCoversEveryByte ==
    icmp.op = "update_checksum" => read_u16(icmp.raw, 2) = ReferenceChecksum(icmp)

\* What the code does compute: for an even transport length the stored value is
\* the reference checksum, and for an odd one it is the checksum of the bytes
\* before the last.
C11_ChecksumOfWholeWords ==
    icmp.op = "update_checksum" =>
        read_u16(icmp.raw, 2) =
            InternetChecksum(write_u16(icmp.raw, 2, 0) \o icmp.payload,
                             2 * (TransportLength(icmp) \div 2))

C11_OddLengthChecksum ==
    /\ icmp.op = "update_checksum"
    /\ TransportLength(icmp) % 2 = 1
    /\ read_u16(icmp.raw, 2) # ReferenceChecksum(icmp)

\* ---------------------------------------------------------------------- C12
\* C12: parsing a header of 4 bytes or more and writing the parsed type and
\* code back with set_icmp_type and set_icmp_code leaves every byte of the
\* buffer as it was, and the detached data is what was parsed.
C12_Step ==
    Rewrite => /\ icmp'.raw = icmp.raw
               /\ icmp'.data = parse(icmp.raw)

C12_ParseThenSetIsIdentity == [][C12_Step]_vars

\* A buffer longer than the header, with different type and code and a
\* checksum field that is not zero, was rewritten.
C12_Witness ==
    /\ icmp.op = "rewrite"
    /\ Len(icmp.raw) > ICMP_HEADER_LENGTH
    /\ icmp.raw[1] # icmp.raw[2]
    /\ icmp.data = parse(icmp.raw)
    /\ icmp.data.checksum # 0

\* ---------------------------------------------------------------------- C13
\* The bytes of the buffer other than the byte at the 0-based offset i.
OtherBytes(raw, i) == [k \in (1..Len(raw)) \ {i + 1} |-> raw[k]]

\* C13: after set_icmp_type(v) both icmp_type() and raw[0] are v, and after
\* set_icmp_code(v) both icmp_code() and raw[1] are v; each setter leaves the
\* other field and every other byte as they were.
C13_Step ==
    /\ SetIcmpType =>
         /\ icmp'.data.icmp_type = icmp'.arg
         /\ icmp'.raw[1] = icmp'.arg
         /\ icmp'.data.icmp_code = icmp.data.icmp_code
         /\ icmp'.data.checksum = icmp.data.checksum
         /\ OtherBytes(icmp'.raw, 0) = OtherBytes(icmp.raw, 0)
    /\ SetIcmpCode =>
         /\ icmp'.data.icmp_code = icmp'.arg
         /\ icmp'.raw[2] = icmp'.arg
         /\ icmp'.data.icmp_type = icmp.data.icmp_type
         /\ icmp'.data.checksum = icmp.data.checksum
         /\ OtherBytes(icmp'.raw, 1) = OtherBytes(icmp.raw, 1)

C13_SettersKeepDataAndBytesInAgreement == [][C13_Step]_vars

\* The code was set to 255 on a header whose type had been set to 1.
C13_Witness ==
    /\ icmp.op = "set_icmp_code"
    /\ icmp.arg = 255
    /\ icmp.raw[2] = 255 /\ icmp.data.icmp_code = 255
    /\ icmp.raw[1] = 1 /\ icmp.data.icmp_type = 1

\* ---------------------------------------------------------------------- C14
\* What create returns for flow c in the present state, for the outcomes env of
\* opening the socket and of registering it.
C14_CreateIsAllOrNothing(c, env) ==
    LET r == create(World, c, env)
    IN  IF env.sock = "ok" /\ env.reg = "ok"
        THEN /\ r.res = "ok"
             /\ r.W.exists[c] /\ ~r.W.closed[c]
             /\ DatagramBuffer_is_empty(r.W.client_to_network[c])
             /\ r.W.interests[c] = ReadyReadable
             /\ r.W.registered[c] = ReadyReadable
             /\ r.W.effects = <<<<"create_socket", "ok">>, <<"register", "ok">>>>
        ELSE /\ r.res = "error"
             /\ [r.W EXCEPT !.effects = <<>>] = World
             /\ ~HasResult(r.W, "register", "ok")

\* C14: create is all-or-nothing. When it succeeds the connection is open, its
\* buffer is empty and its token is registered for read interest only; when the
\* socket cannot be opened, bound or connected, or the registration fails, the
\* error is returned, no connection exists, nothing new is registered and the
\* packet is dropped.
C14_Step ==
    \A c \in Conns :
        (last'.op = "dispatch" /\ last'.conn = c /\ c \notin router) =>
            /\ HasEffect(last', "create_socket")
            /\ \A env \in DispatchEnv : C14_CreateIsAllOrNothing(c, env)
            /\ (\/ HasResult(last', "create_socket", "error")
                \/ HasResult(last', "register", "error")) =>
                   /\ UNCHANGED <<exists, closed, idle_elapsed, interests,
                                  client_to_network, registered, router,
                                  written, panicked>>
                   /\ ~HasEffect(last', "router.insert")
                   /\ ~HasEffect(last', "read_from")
            /\ HasResult(last', "register", "ok") =>
                   /\ c \in router' /\ exists'[c] /\ ~closed'[c]
                   /\ HasEffect(last', "router.insert")

C14_CreateAllOrNothing == [][C14_Step]_vars

\* The registration of a new connection failed, for a flow whose earlier
\* connection was closed and deregistered: nothing is registered and the flow
\* map is empty.
C14_Witness ==
    /\ last.op = "dispatch" /\ last.conn = MainFlow
    /\ last.effects = <<<<"create_socket", "ok">>, <<"register", "error">>>>
    /\ exists[MainFlow] /\ closed[MainFlow]
    /\ registered[MainFlow] = NotRegistered
    /\ router = {}

\* ---------------------------------------------------------------------- C15
\* The flows whose token the Selector holds, and the flows whose connection is
\* open and in the flow map of the Router.
RegisteredTokens == {c \in Conns : registered[c] # NotRegistered}
OpenRouted == {c \in Conns : c \in router /\ exists[c] /\ ~closed[c]}

\* C15: between two steps of the event loop the registered tokens are exactly
\* the tokens of the open connections of the Router, whatever create, dispatch,
\* readiness events, close and sweep did, a close whose deregister call failed
\* included.
C15_RegisteredTokensAreOpenConnections ==
    ~panicked => RegisteredTokens = OpenRouted

\* Every step in which no deregister call fails keeps the two sets equal.
C15_StepWithoutFailedDeregister ==
    (/\ RegisteredTokens = OpenRouted
     /\ ~HasResult(last', "deregister", "error")
     /\ ~panicked')
        => RegisteredTokens' = OpenRouted'

C15_PreservedWhenDeregisterSucceeds == [][C15_StepWithoutFailedDeregister]_vars

\* An error closed the connection and its deregistration failed: the token is
\* still registered for a connection that left the flow map.
C15_TokenLeftRegistered ==
    /\ last.op = "on_ready" /\ last.conn = MainFlow
    /\ HasResult(last, "deregister", "error")
    /\ closed[MainFlow] /\ MainFlow \notin router
    /\ registered[MainFlow] # NotRegistered

\* ---------------------------------------------------------------------- C16
\* The positions of the calls of op among the calls of the last operation.
Calls(l, op) == {i \in DOMAIN l.effects : l.effects[i][1] = op}

\* C16: within one on_ready the write to the socket is attempted before the
\* read, never after it, and at most one write and one read are attempted.
C16_WriteBeforeRead ==
    last.op = "on_ready" =>
        /\ Count(last, "socket.send") <= 1
        /\ Count(last, "socket.recv") <= 1
        /\ \A i \in Calls(last, "socket.send"), j \in Calls(last, "socket.recv") :
               i < j

\* An event with both readiness bits flushed a datagram and then read a packet.
C16_Witness ==
    /\ last.op = "on_ready" /\ last.open
    /\ last.ready = ReadyReadable \cup ReadyWritable
    /\ HasResult(last, "socket.send", "ok")
    /\ HasResult(last, "socket.recv", "ok")

\* ---------------------------------------------------------------------- C17
\* C17: an on_ready on an open connection whose event carries read readiness,
\* and whose write phase left the connection open (the write succeeded, was not
\* attempted, or returned would-block), attempts exactly one read and forwards
\* the packet it read in the same invocation.
C17_ReadAttemptedWhenStillOpen ==
    (/\ last.op = "on_ready" /\ last.open
     /\ "r" \in last.ready
     /\ ~HasResult(last, "socket.send", "error"))
        => /\ Count(last, "socket.recv") = 1
           /\ HasResult(last, "socket.recv", "ok") =>
                  Count(last, "send_to_client") = 1

\* What the code does: the read is attempted exactly once unless the write
\* returned would-block, and then it is not attempted at all.
C17_ReadSkippedOnlyAfterWouldBlock ==
    (/\ last.op = "on_ready" /\ last.open
     /\ "r" \in last.ready
     /\ ~HasResult(last, "socket.send", "error"))
        => /\ Count(last, "socket.recv") =
                  (IF HasResult(last, "socket.send", "wouldblock") THEN 0 ELSE 1)
           /\ HasResult(last, "socket.recv", "ok") =>
                  Count(last, "send_to_client") = 1

\* A write returned would-block on an event that also carried read readiness:
\* the connection is open and no read was attempted.
C17_ReadSkipped ==
    /\ last.op = "on_ready" /\ last.open
    /\ last.ready = ReadyReadable \cup ReadyWritable
    /\ HasResult(last, "socket.send", "wouldblock")
    /\ ~closed[last.conn]
    /\ ~HasEffect(last, "socket.recv")

\* ---------------------------------------------------------------------- C18
\* The interest set connection c had before the update_interests of this step:
\* the one set by create when the step created the connection.
InterestsBefore(c) ==
    IF HasEffect(last', "register") THEN ReadyReadable ELSE interests[c]

\* C18: after every send_to_network and every on_ready that leaves the
\* connection open, a would-block invocation included, the registered interest
\* set is {read} when the buffer is empty and {read, write} when it is not, the
\* interests field equals the registered set, and reregister is issued only
\* when the set changes.
C18_Step ==
    \A c \in Conns :
        (/\ last'.op \in {"on_ready", "dispatch"} /\ last'.conn = c
         /\ c \in router' /\ exists'[c] /\ ~closed'[c]
         /\ ~panicked')
            => /\ interests'[c] = (IF DatagramBuffer_is_empty(client_to_network'[c])
                                   THEN ReadyReadable
                                   ELSE ReadyReadable \cup ReadyWritable)
               /\ registered'[c] = interests'[c]
               /\ HasEffect(last', "reregister") =>
                      /\ Count(last', "reregister") = 1
                      /\ interests'[c] # InterestsBefore(c)

C18_InterestsFollowTheBuffer == [][C18_Step]_vars

\* What the code does: the interests follow the buffer after every operation
\* that did not meet a would-block, and a would-block leaves them as they were.
C18_StepOfTheCode ==
    \A c \in Conns :
        (/\ last'.op \in {"on_ready", "dispatch"} /\ last'.conn = c
         /\ c \in router' /\ exists'[c] /\ ~closed'[c]
         /\ ~panicked'
         /\ last' # last)
            => /\ registered'[c] = interests'[c]
               /\ HasEffect(last', "reregister") =>
                      /\ Count(last', "reregister") = 1
                      /\ interests'[c] # InterestsBefore(c)
               /\ IF \/ HasResult(last', "socket.send", "wouldblock")
                     \/ HasResult(last', "socket.recv", "wouldblock")
                  THEN /\ interests'[c] = interests[c]
                       /\ ~HasEffect(last', "reregister")
                  ELSE interests'[c] =
                           (IF DatagramBuffer_is_empty(client_to_network'[c])
                            THEN ReadyReadable
                            ELSE ReadyReadable \cup ReadyWritable)

C18_InterestsFollowTheBufferUnlessWouldBlock == [][C18_StepOfTheCode]_vars

\* The write emptied the buffer and the read returned would-block: the
\* connection is open with an empty buffer and still registered for write.
C18_WriteInterestLeftOn ==
    /\ last.op = "on_ready" /\ last.open
    /\ HasResult(last, "socket.send", "ok")
    /\ HasResult(last, "socket.recv", "wouldblock")
    /\ ~closed[last.conn]
    /\ DatagramBuffer_is_empty(client_to_network[last.conn])
    /\ interests[last.conn] = ReadyReadable \cup ReadyWritable
    /\ registered[last.conn] = ReadyReadable \cup ReadyWritable

\* ---------------------------------------------------------------------- C19
\* The tags of the tunnel packets of a flow.
Tags == 1..MaxSends

Queued(c, d) == \E i \in DOMAIN client_to_network[c] : client_to_network[c][i] = d
Written(c, d) == \E i \in DOMAIN written[c] : written[c][i] = d

\* C19: under fairness, every datagram accepted by send_to_network is
\* eventually written to the network socket unless the connection is closed
\* first.
C19_AcceptedDatagramIsEventuallyWritten ==
    \A d \in Tags :
        Queued(MainFlow, d) ~> (Written(MainFlow, d) \/ closed[MainFlow])

\* What the code does: the datagram is written unless the connection is closed
\* or the process panics first.
C19_WrittenUnlessClosedOrPanicked ==
    \A d \in Tags :
        Queued(MainFlow, d) ~>
            (Written(MainFlow, d) \/ closed[MainFlow] \/ panicked)

\* The step of the fairness condition is the step on_ready takes.
C19_FlushIsOnReady ==
    CanFlush(MainFlow) =>
        flushed(World, MainFlow) = on_ready(World, MainFlow, ReadyWritable, NoFailure)

\* A datagram is queued on an open connection and the process has panicked.
C19_QueuedAtPanic ==
    /\ panicked
    /\ ~closed[MainFlow]
    /\ \E d \in Tags : Queued(MainFlow, d) /\ ~Written(MainFlow, d)

\* ---------------------------------------------------------------------- C20
\* The calls a closed connection must not make.
SocketAndSelectorCalls ==
    {"socket.send", "socket.recv", "send_to_client", "register", "reregister"}

\* The step replaced the connection of flow c, which had left the flow map, by
\* a new one made by create.
Recreated(c) ==
    /\ last'.op = "dispatch" /\ last'.conn = c
    /\ HasResult(last', "register", "ok")

\* C20: closed is terminal and inert. Once a connection is closed its flag is
\* never cleared, and no later on_ready or send_to_network reads or writes the
\* socket, queues data, delivers to the Client, or issues register or
\* reregister.
C20_Step ==
    \A c \in Conns :
        (exists[c] /\ closed[c]) =>
            /\ ~Recreated(c) => closed'[c]
            /\ (/\ last'.conn = c
                /\ \/ last'.op = "on_ready"
                   \/ last'.op = "dispatch" /\ c \in router) =>
                   /\ \A op \in SocketAndSelectorCalls : ~HasEffect(last', op)
                   /\ ~HasResult(last', "read_from", "ok")
                   /\ client_to_network'[c] = client_to_network[c]
                   /\ written'[c] = written[c]

C20_ClosedIsTerminalAndInert == [][C20_Step]_vars

\* What the code does: the flag is never cleared and on_ready does nothing on a
\* closed connection; send_to_network does not test the flag.
C20_StepOfTheCode ==
    \A c \in Conns :
        (exists[c] /\ closed[c] /\ ~Recreated(c)) =>
            /\ closed'[c]
            /\ written'[c] = written[c]
            /\ (last'.op = "on_ready" /\ last'.conn = c) =>
                   /\ last'.effects = <<>>
                   /\ client_to_network'[c] = client_to_network[c]
                   /\ interests'[c] = interests[c]
                   /\ registered'[c] = registered[c]

C20_ClosedIsTerminalAndInertForEvents == [][C20_StepOfTheCode]_vars

\* A packet was dispatched to a connection that had been closed and was still
\* in the flow map: it was queued and a reregister was issued.
C20_QueuedAfterClose ==
    /\ last.op = "dispatch" /\ last.conn = MainFlow
    /\ closed[MainFlow] /\ MainFlow \in router
    /\ ~HasEffect(last, "register")
    /\ HasResult(last, "read_from", "ok")
    /\ HasEffect(last, "reregister")
    /\ client_to_network[MainFlow] # <<>>


====
